---- MODULE Spec2Model ----
(***************************************************************************)
(* Model of the federated learning engine of MediLedger Nexus,             *)
(* src/src/mediledger_nexus/ai/federated_learning.py:                      *)
(* FederatedLearningRound and FederatedLearningEngine.                     *)
(*                                                                         *)
(* Spec        the engine driven from one asyncio event loop: a handler    *)
(*             runs without interruption up to its first suspending await  *)
(*             (the Groq call inside _generate_learning_insights).         *)
(* SpecThreads the same engine with submit_model_update called from        *)
(*             several threads; the code takes no lock, so the statements  *)
(*             of the calls interleave.                                    *)
(* SpecPolling the engine of Spec with callers that also poll              *)
(*             get_round_status and get_global_model.                      *)
(* SpecBudget  the engine of Spec with submits that carry a privacy budget *)
(*             of 0 or less in their metadata.                             *)
(* SpecAverage, SpecAverageFloat   _federated_average as a pure function,  *)
(*             in exact arithmetic and with the rounding of floats.        *)
(* SpecConverged   the convergence check of the aggregation engine.        *)
(***************************************************************************)
EXTENDS Integers, Sequences, FiniteSets, TLC

\* ---------------------------------------------------------------- bounds
NumRounds == 2
NumParticipants == 2
MaxMinParticipants == 2
NumThreads == 2
MaxAverageUpdates == 2
MaxFloatUpdates == 3
FloatBits == 3

RoundIds == 1..NumRounds
ParticipantIds == 1..NumParticipants
MinParticipantsValues == 1..MaxMinParticipants
Threads == 1..NumThreads

StudyTypes == {"diabetes"}
Layers == {"coefficients"}
Arrays == {<<1, 3>>, <<1, 2, 3>>}

None == [none |-> TRUE]

\* ------------------------------------------------------- pure operators
RECURSIVE GCD(_, _)
GCD(a, b) == IF b = 0 THEN a ELSE GCD(b, a % b)

\* a list, filtered
RECURSIVE SelectKey(_, _)
SelectKey(model_updates, key) ==
    IF model_updates = << >> THEN << >>
    ELSE LET u == Head(model_updates)
             rest == SelectKey(Tail(model_updates), key)
         IN  IF key \in DOMAIN u.weights THEN <<u.weights[key]>> \o rest ELSE rest

RECURSIVE SumAt(_, _)
SumAt(arrays, i) ==
    IF arrays = << >> THEN 0 ELSE Head(arrays)[i] + SumAt(Tail(arrays), i)

\* a value of numpy's float mean, kept exact as a reduced fraction
Fraction(num, den) ==
    LET g == GCD(num, den) IN <<num \div g, den \div g>>

\* ModelWeights(weights, metadata)
ModelWeights(weights, participant_id) ==
    [weights |-> weights, participant_id |-> participant_id, ai_insights |-> FALSE]

\* all the arrays of one key have one shape
SameShape(arrays) ==
    \A i, j \in 1..Len(arrays) : Len(arrays[i]) = Len(arrays[j])

\* a plausible slip: the keys are taken from the first update only
AllKeysOfFirst(model_updates) == DOMAIN model_updates[1].weights

\* lines 251-253: the keys of all the updates
AllKeys(model_updates) ==
    UNION {DOMAIN model_updates[i].weights : i \in 1..Len(model_updates)}

\* a plausible slip: np.sum in place of np.mean
NpSum(arrays) ==
    [i \in 1..Len(arrays[1]) |-> Fraction(SumAt(arrays, i), 1)]

\* np.mean(weights_for_key, axis=0)
NpMean(arrays) ==
    [i \in 1..Len(arrays[1]) |-> Fraction(SumAt(arrays, i), Len(arrays))]

\* np.mean raises ValueError on arrays of different shapes
MeanRaises(model_updates) ==
    \E key \in AllKeys(model_updates) : ~SameShape(SelectKey(model_updates, key))

\* FederatedLearningEngine._federated_average: any exception gives {}
FederatedAverage(model_updates) ==
    IF model_updates = << >> THEN << >>
    ELSE IF MeanRaises(model_updates) THEN << >>
    ELSE [key \in AllKeys(model_updates) |-> NpMean(SelectKey(model_updates, key))]

\* a plausible slip: the round is constructed already in training
NewRoundTraining(round_id, study_type, min_participants) ==
    [round_id |-> round_id,
     study_type |-> study_type,
     min_participants |-> min_participants,
     participants |-> << >>,
     model_updates |-> << >>,
     global_model |-> None,
     status |-> "training",
     completed_at |-> FALSE]

\* FederatedLearningRound.__init__
NewRound(round_id, study_type, min_participants) ==
    [round_id |-> round_id,
     study_type |-> study_type,
     min_participants |-> min_participants,
     participants |-> << >>,
     model_updates |-> << >>,
     global_model |-> None,
     status |-> "waiting",
     completed_at |-> FALSE]

InList(x, list) == \E i \in 1..Len(list) : list[i] = x

\* a plausible slip: > in place of >=
CanStartStrict(r) == Len(r.participants) > r.min_participants

\* FederatedLearningRound.can_start
CanStart(r) == Len(r.participants) >= r.min_participants

\* a plausible slip: complete as soon as any update is in
IsCompleteAnyUpdate(r) == Len(r.model_updates) >= 1

\* a plausible slip: > in place of >=
IsCompleteStrict(r) == Len(r.model_updates) > Len(r.participants)

\* FederatedLearningRound.is_complete
IsComplete(r) == Len(r.model_updates) >= Len(r.participants)

\* a plausible slip: the membership test is left out
AddParticipantUnchecked(r, participant_id) ==
    [r EXCEPT !.participants = Append(@, participant_id)]

\* FederatedLearningRound.add_participant: the round after the call
AddParticipant(r, participant_id) ==
    IF ~InList(participant_id, r.participants)
    THEN [r EXCEPT !.participants = Append(@, participant_id)]
    ELSE r

\* a plausible slip: the roster check is left out
AddModelUpdateUnchecked(r, model_weights) ==
    [r EXCEPT !.model_updates = Append(@, model_weights)]

\* FederatedLearningRound.add_model_update: the round after the call
AddModelUpdate(r, model_weights) ==
    IF InList(model_weights.participant_id, r.participants)
    THEN [r EXCEPT !.model_updates = Append(@, model_weights)]
    ELSE r

\* _extract_model_weights, then ModelWeights of the participant
WeightInputs == UNION {[L -> Arrays] : L \in SUBSET Layers}

\* ------------------------------------------------------------------ state
VARIABLES
    rounds,            \* the FederatedLearningRound objects, by round_id
    active_rounds,     \* keys of engine.active_rounds
    completed_rounds,  \* keys of engine.completed_rounds
    suspended,         \* submit calls waiting in the Groq await, by round_id
    last,              \* the call that returned last, and its result
    status_trace,      \* history: the values assigned to round.status
    assign_count,      \* history: number of assignments to round.global_model
    pc,                \* SpecThreads: position of each thread's call
    frame,             \* SpecThreads: arguments and locals of each call
    fa_updates,        \* SpecAverage: the argument of _federated_average
    fa_result,         \* SpecAverage: what _federated_average returned
    cv_args,           \* SpecConverged: the arguments of converged
    cv_result          \* SpecConverged: what converged returned

vars == <<rounds, active_rounds, completed_rounds, suspended, last,
          status_trace, assign_count, pc, frame, fa_updates, fa_result,
          cv_args, cv_result>>

threadVars == <<pc, frame>>

\* the variables of the specifications of the pure functions
averageVars == <<fa_updates, fa_result, cv_args, cv_result>>

\* the caller sees a returned value and no exception: every handler catches
\* Exception and returns False (lines 143-145, 173-175, 209-210, 270-272)
NoCall == [op |-> "none", result |-> FALSE, raised |-> "none", snapshot |-> None]
NoFrame == [round_id |-> 0, participant_id |-> 0, weights |-> << >>,
            success |-> FALSE, aggregated_weights |-> << >>]

Init ==
    /\ rounds = [id \in RoundIds |-> None]
    /\ active_rounds = {}
    /\ completed_rounds = {}
    /\ suspended = [id \in RoundIds |-> None]
    /\ last = NoCall
    /\ status_trace = [id \in RoundIds |-> << >>]
    /\ assign_count = [id \in RoundIds |-> 0]
    /\ pc = [t \in Threads |-> "idle"]
    /\ frame = [t \in Threads |-> NoFrame]
    /\ fa_updates = << >>
    /\ fa_result = None
    /\ cv_args = None
    /\ cv_result = None

Returned(op, result) ==
    [op |-> op, result |-> result, raised |-> "none", snapshot |-> None]

\* ---------------------------------------------------------------- actions
\* FederatedLearningEngine.create_learning_round; uuid4 gives an unused id
\* (ids are interchangeable: the model hands them out in order)
CreateLearningRound(round_id, study_type, min_participants) ==
    /\ rounds[round_id] = None
    /\ \A id \in RoundIds : id < round_id => rounds[id] # None
    /\ rounds' = [rounds EXCEPT ![round_id] = NewRound(round_id, study_type, min_participants)]
    /\ active_rounds' = active_rounds \cup {round_id}
    /\ status_trace' = [status_trace EXCEPT ![round_id] = <<"waiting">>]
    /\ last' = Returned("create", TRUE)
    /\ UNCHANGED <<completed_rounds, suspended, assign_count, threadVars, averageVars>>

\* a plausible slip: the lookup also finds archived rounds
FoundAnywhere(round_id) == round_id \in active_rounds \cup completed_rounds

\* lines 129 and 156: round_id in self.active_rounds
Found(round_id) == round_id \in active_rounds

\* the value join_round returns (lines 131, 134, 141)
JoinSuccess(round_id, participant_id) ==
    Found(round_id) /\ ~InList(participant_id, rounds[round_id].participants)

\* FederatedLearningEngine.join_round
JoinRound(round_id, participant_id) ==
    IF ~Found(round_id)
    THEN /\ last' = Returned("join", JoinSuccess(round_id, participant_id))
         /\ UNCHANGED <<rounds, active_rounds, completed_rounds, suspended,
                        status_trace, assign_count, threadVars, averageVars>>
    ELSE LET r == rounds[round_id]
             joined == AddParticipant(r, participant_id)
             starts == CanStart(joined) /\ joined.status = "waiting"
         IN  /\ rounds' = [rounds EXCEPT ![round_id] =
                    IF starts THEN [joined EXCEPT !.status = "training"] ELSE joined]
             /\ status_trace' = [status_trace EXCEPT ![round_id] =
                    IF starts THEN Append(@, "training") ELSE @]
             /\ last' = Returned("join", JoinSuccess(round_id, participant_id))
             /\ UNCHANGED <<active_rounds, completed_rounds, suspended,
                            assign_count, threadVars, averageVars>>

\* a plausible slip: the list of updates is cleared once it is averaged
AggregatedClearingUpdates(r) ==
    [r EXCEPT !.global_model = ModelWeights(FederatedAverage(r.model_updates), "global"),
              !.status = "completed",
              !.completed_at = TRUE,
              !.model_updates = << >>]

\* a plausible slip: the arrays of the updates are emptied once averaged
AggregatedConsumingUpdates(r) ==
    [r EXCEPT !.global_model = ModelWeights(FederatedAverage(r.model_updates), "global"),
              !.status = "completed",
              !.completed_at = TRUE,
              !.model_updates = [i \in 1..Len(r.model_updates) |->
                   [r.model_updates[i] EXCEPT !.weights = << >>]]]

\* _aggregate_models up to the await of _generate_learning_insights:
\* the round after lines 180-198
Aggregated(r) ==
    [r EXCEPT !.global_model = ModelWeights(FederatedAverage(r.model_updates), "global"),
              !.status = "completed",
              !.completed_at = TRUE]

\* a plausible slip: the round is archived but not taken out
ActiveAfterMoveKept(round_id) == active_rounds

\* a plausible slip: the whole registry is emptied
ActiveAfterMoveCleared(round_id) == {}

\* line 202: del self.active_rounds[round_id]
ActiveAfterMove(round_id) == active_rounds \ {round_id}

\* the value submit_model_update returns (lines 158, 165, 171)
SubmitSuccess(round_id, participant_id) ==
    Found(round_id) /\ InList(participant_id, rounds[round_id].participants)

\* FederatedLearningEngine.submit_model_update, to its return or to the
\* suspension of the call in the Groq await
SubmitModelUpdate(round_id, participant_id, weights) ==
    IF ~Found(round_id)
    THEN /\ last' = Returned("submit", SubmitSuccess(round_id, participant_id))
         /\ UNCHANGED <<rounds, active_rounds, completed_rounds, suspended,
                        status_trace, assign_count, threadVars, averageVars>>
    ELSE LET r == rounds[round_id]
             success == SubmitSuccess(round_id, participant_id)
             added == AddModelUpdate(r, ModelWeights(weights, participant_id))
         IN  IF IsComplete(added)
             THEN /\ rounds' = [rounds EXCEPT ![round_id] = Aggregated(added)]
                  /\ status_trace' = [status_trace EXCEPT ![round_id] =
                         @ \o <<"aggregating", "completed">>]
                  /\ assign_count' = [assign_count EXCEPT ![round_id] = @ + 1]
                  /\ completed_rounds' = completed_rounds \cup {round_id}
                  /\ active_rounds' = ActiveAfterMove(round_id)
                  /\ suspended' = [suspended EXCEPT ![round_id] =
                         [success |-> success]]
                  /\ UNCHANGED <<last, threadVars, averageVars>>
             ELSE /\ rounds' = [rounds EXCEPT ![round_id] = added]
                  /\ last' = Returned("submit", success)
                  /\ UNCHANGED <<active_rounds, completed_rounds, suspended,
                                 status_trace, assign_count, threadVars, averageVars>>

\* the Groq await returns: _generate_learning_insights stores the insights,
\* _aggregate_models and submit_model_update return
InsightsReturn(round_id) ==
    /\ suspended[round_id] # None
    /\ rounds' = [rounds EXCEPT ![round_id].global_model.ai_insights = TRUE]
    /\ last' = Returned("submit", suspended[round_id].success)
    /\ suspended' = [suspended EXCEPT ![round_id] = None]
    /\ UNCHANGED <<active_rounds, completed_rounds, status_trace, assign_count,
                   threadVars, averageVars>>

\* a plausible slip: the participant count is read from the updates
StatusSnapshotOfUpdates(round_id, r) ==
    [round_id |-> round_id,
     study_type |-> r.study_type,
     status |-> r.status,
     participants |-> Len(r.model_updates),
     model_updates |-> Len(r.model_updates),
     completed_at |-> r.completed_at,
     has_global_model |-> r.global_model # None]

\* lines 313-322: the dictionary get_round_status builds
StatusSnapshot(round_id, r) ==
    [round_id |-> round_id,
     study_type |-> r.study_type,
     status |-> r.status,
     participants |-> Len(r.participants),
     model_updates |-> Len(r.model_updates),
     completed_at |-> r.completed_at,
     has_global_model |-> r.global_model # None]

\* the value get_round_status returns (lines 306-322)
RoundStatus(round_id) ==
    IF round_id \in active_rounds THEN StatusSnapshot(round_id, rounds[round_id])
    ELSE IF round_id \in completed_rounds
         THEN StatusSnapshot(round_id, rounds[round_id])
         ELSE None

\* FederatedLearningEngine.get_round_status
GetRoundStatus(round_id) ==
    /\ last' = [op |-> "status", result |-> RoundStatus(round_id) # None,
                raised |-> "none", snapshot |-> RoundStatus(round_id)]
    /\ UNCHANGED <<rounds, active_rounds, completed_rounds, suspended,
                   status_trace, assign_count, threadVars, averageVars>>

Next ==
    \/ \E id \in RoundIds, s \in StudyTypes, m \in MinParticipantsValues :
          CreateLearningRound(id, s, m)
    \/ \E id \in RoundIds, p \in ParticipantIds : JoinRound(id, p)
    \/ \E id \in RoundIds, p \in ParticipantIds, w \in WeightInputs :
          SubmitModelUpdate(id, p, w)
    \/ \E id \in RoundIds : InsightsReturn(id)

Spec == Init /\ [][Next]_vars

\* a plausible slip: the model is looked up in the wrong registry
GlobalModelFromActive(round_id) ==
    IF round_id \in active_rounds THEN rounds[round_id].global_model ELSE None

\* the value get_global_model returns (lines 353-355)
GlobalModel(round_id) ==
    IF round_id \in completed_rounds THEN rounds[round_id].global_model ELSE None

\* FederatedLearningEngine.get_global_model
GetGlobalModel(round_id) ==
    /\ last' = Returned("model", GlobalModel(round_id) # None)
    /\ UNCHANGED <<rounds, active_rounds, completed_rounds, suspended,
                   status_trace, assign_count, threadVars, averageVars>>

\* get_available_rounds (lines 333-342): the round ids of the list it returns
AvailableRounds == {id \in active_rounds : rounds[id].status = "waiting"}

\* the snapshot reads no weights: one weight set is submitted
PollingWeightInputs == {[l \in Layers |-> <<1, 3>>]}

\* the engine with callers that also poll get_round_status
NextPolling ==
    \/ \E id \in RoundIds, s \in StudyTypes, m \in MinParticipantsValues :
          CreateLearningRound(id, s, m)
    \/ \E id \in RoundIds, p \in ParticipantIds : JoinRound(id, p)
    \/ \E id \in RoundIds, p \in ParticipantIds, w \in PollingWeightInputs :
          SubmitModelUpdate(id, p, w)
    \/ \E id \in RoundIds : InsightsReturn(id)
    \/ \E id \in RoundIds : GetRoundStatus(id)
    \/ \E id \in RoundIds : GetGlobalModel(id)

SpecPolling == Init /\ [][NextPolling]_vars

\* callers that put a privacy budget of 0 or less in training_metadata
NonPositiveBudgets == {0, -1}

\* submit_model_update(round_id, participant_id, local_model,
\* {"privacy_budget": privacy_budget}): the metadata is stored with the
\* update (lines 230-236) and no statement reads the budget
SubmitWithBudget(round_id, participant_id, weights, privacy_budget) ==
    SubmitModelUpdate(round_id, participant_id, weights)

NextBudget ==
    \/ \E id \in RoundIds, s \in StudyTypes, m \in MinParticipantsValues :
          CreateLearningRound(id, s, m)
    \/ \E id \in RoundIds, p \in ParticipantIds : JoinRound(id, p)
    \/ \E id \in RoundIds, p \in ParticipantIds, w \in PollingWeightInputs,
          b \in NonPositiveBudgets : SubmitWithBudget(id, p, w, b)
    \/ \E id \in RoundIds : InsightsReturn(id)

SpecBudget == Init /\ [][NextBudget]_vars

\* ------------------------------------------------ SpecThreads: the steps
\* of submit_model_update and _aggregate_models, one statement at a time
Goto(t, label) == pc' = [pc EXCEPT ![t] = label]

engineVars == <<rounds, active_rounds, completed_rounds, suspended,
                status_trace, assign_count, averageVars>>

\* thread t enters submit_model_update(round_id, participant_id, ...)
T_Call(t, round_id, participant_id, weights) ==
    /\ pc[t] = "idle"
    /\ frame' = [frame EXCEPT ![t] =
           [NoFrame EXCEPT !.round_id = round_id,
                           !.participant_id = participant_id,
                           !.weights = weights]]
    /\ Goto(t, "l156")
    /\ UNCHANGED <<engineVars, last>>

\* line 156: if round_id not in self.active_rounds: return False
T_CheckActive(t) ==
    /\ pc[t] = "l156"
    /\ IF Found(frame[t].round_id)
       THEN Goto(t, "l160") /\ UNCHANGED <<frame>>
       ELSE /\ frame' = [frame EXCEPT ![t].success = FALSE]
            /\ Goto(t, "return")
    /\ UNCHANGED <<engineVars, last>>

\* line 160: learning_round = self.active_rounds[round_id]; a KeyError is
\* caught at line 173 and the call returns False
T_GetRound(t) ==
    /\ pc[t] = "l160"
    /\ IF frame[t].round_id \in active_rounds
       THEN Goto(t, "l165") /\ UNCHANGED <<frame>>
       ELSE /\ frame' = [frame EXCEPT ![t].success = FALSE]
            /\ Goto(t, "return")
    /\ UNCHANGED <<engineVars, last>>

\* lines 163-165: success = learning_round.add_model_update(model_weights)
T_AddModelUpdate(t) ==
    /\ pc[t] = "l165"
    /\ LET id == frame[t].round_id
           r == rounds[id]
       IN  /\ rounds' = [rounds EXCEPT ![id] =
                  AddModelUpdate(r, ModelWeights(frame[t].weights, frame[t].participant_id))]
           /\ frame' = [frame EXCEPT ![t].success =
                  InList(frame[t].participant_id, r.participants)]
    /\ Goto(t, "l168")
    /\ UNCHANGED <<active_rounds, completed_rounds, suspended, averageVars, status_trace,
                   assign_count, last>>

\* line 168: if learning_round.is_complete():
T_IsComplete(t) ==
    /\ pc[t] = "l168"
    /\ IF IsComplete(rounds[frame[t].round_id])
       THEN Goto(t, "l180")
       ELSE Goto(t, "return")
    /\ UNCHANGED <<engineVars, frame, last>>

\* line 180: learning_round = self.active_rounds[round_id]; a KeyError is
\* caught at line 209 and _aggregate_models returns
T_AggGetRound(t) ==
    /\ pc[t] = "l180"
    /\ IF frame[t].round_id \in active_rounds
       THEN Goto(t, "l181")
       ELSE Goto(t, "return")
    /\ UNCHANGED <<engineVars, frame, last>>

\* line 181: learning_round.status = "aggregating"
T_AggStatus(t) ==
    /\ pc[t] = "l181"
    /\ rounds' = [rounds EXCEPT ![frame[t].round_id].status = "aggregating"]
    /\ status_trace' = [status_trace EXCEPT ![frame[t].round_id] =
           Append(@, "aggregating")]
    /\ Goto(t, "l186")
    /\ UNCHANGED <<active_rounds, completed_rounds, suspended, averageVars, assign_count,
                   frame, last>>

\* line 186: aggregated_weights = self._federated_average(...)
T_AggAverage(t) ==
    /\ pc[t] = "l186"
    /\ frame' = [frame EXCEPT ![t].aggregated_weights =
           FederatedAverage(rounds[frame[t].round_id].model_updates)]
    /\ Goto(t, "l196")
    /\ UNCHANGED <<engineVars, last>>

\* line 196: learning_round.global_model = ModelWeights(...)
T_AggSetModel(t) ==
    /\ pc[t] = "l196"
    /\ rounds' = [rounds EXCEPT ![frame[t].round_id].global_model =
           ModelWeights(frame[t].aggregated_weights, "global")]
    /\ assign_count' = [assign_count EXCEPT ![frame[t].round_id] = @ + 1]
    /\ Goto(t, "l197")
    /\ UNCHANGED <<active_rounds, completed_rounds, suspended, averageVars, status_trace,
                   frame, last>>

\* lines 197-198: status = "completed"; completed_at = utcnow()
T_AggCompleted(t) ==
    /\ pc[t] = "l197"
    /\ rounds' = [rounds EXCEPT ![frame[t].round_id].status = "completed",
                                ![frame[t].round_id].completed_at = TRUE]
    /\ status_trace' = [status_trace EXCEPT ![frame[t].round_id] =
           Append(@, "completed")]
    /\ Goto(t, "l201")
    /\ UNCHANGED <<active_rounds, completed_rounds, suspended, averageVars, assign_count,
                   frame, last>>

\* line 201: self.completed_rounds[round_id] = learning_round
T_AggStore(t) ==
    /\ pc[t] = "l201"
    /\ completed_rounds' = completed_rounds \cup {frame[t].round_id}
    /\ Goto(t, "l202")
    /\ UNCHANGED <<rounds, active_rounds, suspended, averageVars, status_trace,
                   assign_count, frame, last>>

\* line 202: del self.active_rounds[round_id]; a KeyError is caught at
\* line 209 and _aggregate_models returns
T_AggDelete(t) ==
    /\ pc[t] = "l202"
    /\ IF frame[t].round_id \in active_rounds
       THEN /\ active_rounds' = ActiveAfterMove(frame[t].round_id)
            /\ Goto(t, "l205")
       ELSE /\ UNCHANGED active_rounds
            /\ Goto(t, "return")
    /\ UNCHANGED <<rounds, completed_rounds, suspended, averageVars, status_trace,
                   assign_count, frame, last>>

\* line 205: await self._generate_learning_insights(learning_round)
T_Insights(t) ==
    /\ pc[t] = "l205"
    /\ rounds' = [rounds EXCEPT ![frame[t].round_id].global_model.ai_insights = TRUE]
    /\ Goto(t, "return")
    /\ UNCHANGED <<active_rounds, completed_rounds, suspended, averageVars, status_trace,
                   assign_count, frame, last>>

\* lines 158, 171, 175: the call returns
T_Return(t) ==
    /\ pc[t] = "return"
    /\ last' = Returned("submit", frame[t].success)
    /\ frame' = [frame EXCEPT ![t] = NoFrame]
    /\ Goto(t, "idle")
    /\ UNCHANGED engineVars

\* thread t submits for the participant of its own number
ParticipantOf(t) == ((t - 1) % NumParticipants) + 1

NextThreads ==
    \/ \E s \in StudyTypes, m \in MinParticipantsValues :
          CreateLearningRound(1, s, m)
    \/ \E p \in ParticipantIds : JoinRound(1, p)
    \/ \E t \in Threads, w \in WeightInputs : T_Call(t, 1, ParticipantOf(t), w)
    \/ \E t \in Threads : T_CheckActive(t)
    \/ \E t \in Threads : T_GetRound(t)
    \/ \E t \in Threads : T_AddModelUpdate(t)
    \/ \E t \in Threads : T_IsComplete(t)
    \/ \E t \in Threads : T_AggGetRound(t)
    \/ \E t \in Threads : T_AggStatus(t)
    \/ \E t \in Threads : T_AggAverage(t)
    \/ \E t \in Threads : T_AggSetModel(t)
    \/ \E t \in Threads : T_AggCompleted(t)
    \/ \E t \in Threads : T_AggStore(t)
    \/ \E t \in Threads : T_AggDelete(t)
    \/ \E t \in Threads : T_Insights(t)
    \/ \E t \in Threads : T_Return(t)

SpecThreads == Init /\ [][NextThreads]_vars

\* ------------------------------------ SpecAverage: _federated_average
\* applied to lists of up to MaxAverageUpdates updates
AverageLayers == {"w", "b"}
AverageArrays == {<<1, 3>>, <<2, 4>>, <<1, 2, 3>>}
AverageWeights == UNION {[L -> AverageArrays] : L \in SUBSET AverageLayers}
AverageInputs ==
    UNION {[1..n -> {ModelWeights(w, 0) : w \in AverageWeights}] :
              n \in 0..MaxAverageUpdates}

InitAverage ==
    /\ rounds = [id \in RoundIds |-> None]
    /\ active_rounds = {}
    /\ completed_rounds = {}
    /\ suspended = [id \in RoundIds |-> None]
    /\ last = NoCall
    /\ status_trace = [id \in RoundIds |-> << >>]
    /\ assign_count = [id \in RoundIds |-> 0]
    /\ pc = [t \in Threads |-> "idle"]
    /\ frame = [t \in Threads |-> NoFrame]
    /\ fa_updates \in AverageInputs
    /\ fa_result = None
    /\ cv_args = None
    /\ cv_result = None

\* FederatedLearningEngine._federated_average(model_updates)
FederatedAverageCall ==
    /\ fa_result = None
    /\ fa_result' = [weights |-> FederatedAverage(fa_updates)]
    /\ UNCHANGED <<rounds, active_rounds, completed_rounds, suspended, last,
                   status_trace, assign_count, threadVars, fa_updates,
                   cv_args, cv_result>>

NextAverage == FederatedAverageCall

SpecAverage == InitAverage /\ [][NextAverage]_vars

\* --------------------------------- SpecAverageFloat: _federated_average
\* with the rounding of numpy's floats. np.mean adds the arrays in list
\* order and divides by their number; every float64 result is rounded to
\* the nearest value with 53 significant bits, ties to even. The model
\* rounds the same way to FloatBits significant bits, over non-negative
\* multiples of the smallest positive value.
RECURSIVE Spacing(_, _, _)
Spacing(num, den, s) ==
    IF num >= (2 ^ FloatBits) * s * den THEN Spacing(num, den, 2 * s) ELSE s

\* the float nearest to num / den, ties to the even significand
RoundFloat(num, den) ==
    LET s == Spacing(num, den, 1)
        q == num \div (den * s)
        r == num % (den * s)
    IN  IF 2 * r < den * s THEN q * s
        ELSE IF 2 * r > den * s THEN (q + 1) * s
        ELSE IF q % 2 = 0 THEN q * s ELSE (q + 1) * s

\* np.add.reduce over the first n arrays, element i, in list order
RECURSIVE FloatSumAt(_, _, _)
FloatSumAt(arrays, i, n) ==
    IF n = 0 THEN 0
    ELSE RoundFloat(FloatSumAt(arrays, i, n - 1) + arrays[n][i], 1)

\* np.mean(weights_for_key, axis=0) in floats
NpMeanFloat(arrays) ==
    [i \in 1..Len(arrays[1]) |->
        RoundFloat(FloatSumAt(arrays, i, Len(arrays)), Len(arrays))]

\* FederatedLearningEngine._federated_average in floats
FederatedAverageFloat(model_updates) ==
    IF model_updates = << >> THEN << >>
    ELSE IF MeanRaises(model_updates) THEN << >>
    ELSE [key \in AllKeys(model_updates) |->
             NpMeanFloat(SelectKey(model_updates, key))]

FloatArrays == {<<8>>, <<64>>, <<8, 64>>}
FloatWeights == UNION {[L -> FloatArrays] : L \in SUBSET Layers}
FloatInputs ==
    UNION {[1..n -> {ModelWeights(w, 0) : w \in FloatWeights}] :
              n \in 0..MaxFloatUpdates}

InitAverageFloat ==
    /\ rounds = [id \in RoundIds |-> None]
    /\ active_rounds = {}
    /\ completed_rounds = {}
    /\ suspended = [id \in RoundIds |-> None]
    /\ last = NoCall
    /\ status_trace = [id \in RoundIds |-> << >>]
    /\ assign_count = [id \in RoundIds |-> 0]
    /\ pc = [t \in Threads |-> "idle"]
    /\ frame = [t \in Threads |-> NoFrame]
    /\ fa_updates \in FloatInputs
    /\ fa_result = None
    /\ cv_args = None
    /\ cv_result = None

\* FederatedLearningEngine._federated_average(model_updates)
FederatedAverageFloatCall ==
    /\ fa_result = None
    /\ fa_result' = [weights |-> FederatedAverageFloat(fa_updates)]
    /\ UNCHANGED <<rounds, active_rounds, completed_rounds, suspended, last,
                   status_trace, assign_count, threadVars, fa_updates,
                   cv_args, cv_result>>

NextAverageFloat == FederatedAverageFloatCall

SpecAverageFloat == InitAverageFloat /\ [][NextAverageFloat]_vars

\* ------------------------------------------ SpecConverged: the convergence
\* check of the aggregation engine; weights and thresholds in thousandths
AbsDiff(a, b) == IF a >= b THEN a - b ELSE b - a

\* the layers both weight sets carry, with one shape
MatchingLayers(previous, current) ==
    {k \in DOMAIN previous.weights \cap DOMAIN current.weights :
        Len(previous.weights[k]) = Len(current.weights[k])}

RECURSIVE LayerAbsDiff(_, _, _)
LayerAbsDiff(a, b, n) ==
    IF n = 0 THEN 0 ELSE AbsDiff(a[n], b[n]) + LayerAbsDiff(a, b, n - 1)

RECURSIVE TotalAbsDiff(_, _, _)
TotalAbsDiff(previous, current, layers) ==
    IF layers = {} THEN 0
    ELSE LET k == CHOOSE x \in layers : TRUE
         IN  LayerAbsDiff(previous.weights[k], current.weights[k],
                          Len(previous.weights[k]))
             + TotalAbsDiff(previous, current, layers \ {k})

RECURSIVE TotalSize(_, _)
TotalSize(previous, layers) ==
    IF layers = {} THEN 0
    ELSE LET k == CHOOSE x \in layers : TRUE
         IN  Len(previous.weights[k]) + TotalSize(previous, layers \ {k})

\* the mean absolute difference across all matching layers, as a fraction
MeanAbsDiff(previous, current) ==
    LET layers == MatchingLayers(previous, current)
    IN  Fraction(TotalAbsDiff(previous, current, layers),
                 TotalSize(previous, layers))

\* a plausible slip: < in place of <=
ConvergedStrict(previous, current, threshold) ==
    LET distance == MeanAbsDiff(previous, current)
    IN  distance[1] < threshold * distance[2]

\* converged(previous, current, threshold): distance <= threshold
Converged(previous, current, threshold) ==
    LET distance == MeanAbsDiff(previous, current)
    IN  distance[1] <= threshold * distance[2]

ConvergedArrays == {<<0>>, <<9>>, <<10>>, <<11>>, <<0, 0>>, <<0, 20>>}
ConvergedWeights == UNION {[L -> ConvergedArrays] : L \in SUBSET AverageLayers}
ConvergedThresholds == {0, 10}
ConvergedInputs ==
    [previous : {ModelWeights(w, "global") : w \in ConvergedWeights},
     current : {ModelWeights(w, "global") : w \in ConvergedWeights},
     threshold : ConvergedThresholds]

InitConverged ==
    /\ rounds = [id \in RoundIds |-> None]
    /\ active_rounds = {}
    /\ completed_rounds = {}
    /\ suspended = [id \in RoundIds |-> None]
    /\ last = NoCall
    /\ status_trace = [id \in RoundIds |-> << >>]
    /\ assign_count = [id \in RoundIds |-> 0]
    /\ pc = [t \in Threads |-> "idle"]
    /\ frame = [t \in Threads |-> NoFrame]
    /\ fa_updates = << >>
    /\ fa_result = None
    /\ cv_args \in ConvergedInputs
    /\ cv_result = None

\* converged(previous, current, threshold); no distance is defined when no
\* layer matches, and either answer may come back
ConvergedCall ==
    /\ cv_result = None
    /\ \E undefined \in BOOLEAN :
           cv_result' = [converged |->
               IF MatchingLayers(cv_args.previous, cv_args.current) = {}
               THEN undefined
               ELSE Converged(cv_args.previous, cv_args.current, cv_args.threshold)]
    /\ UNCHANGED <<rounds, active_rounds, completed_rounds, suspended, last,
                   status_trace, assign_count, threadVars, fa_updates, fa_result,
                   cv_args>>

NextConverged == ConvergedCall

SpecConverged == InitConverged /\ [][NextConverged]_vars

\* ================================================================ claims
Created == {id \in RoundIds : rounds[id] # None}

Owners(r) == {r.model_updates[i].participant_id : i \in 1..Len(r.model_updates)}

UpdatesOf(r, p) == {i \in 1..Len(r.model_updates) : r.model_updates[i].participant_id = p}

\* every participant on the roster owns exactly one stored update
OneUpdateEach(r) ==
    \A i \in 1..Len(r.participants) :
        Cardinality(UpdatesOf(r, r.participants[i])) = 1

Idle == \A t \in Threads : pc[t] = "idle"

NoneSuspended == \A id \in RoundIds : suspended[id] = None

\* C1 (as claimed): however the concurrent submit_model_update calls on a
\* round interleave, its global_model is assigned at most once, and once
\* every call has returned an aggregated round has status completed. (Read
\* on the rounds of two or more participants, each with one update.)
C1_AggregatedExactlyOnce ==
    \A id \in Created :
        (Len(rounds[id].participants) >= 2 /\ OneUpdateEach(rounds[id]))
        => /\ assign_count[id] <= 1
           /\ (Idle /\ assign_count[id] >= 1) => rounds[id].status = "completed"

\* C2 (as claimed): no participant owns more than one stored update of a
\* round.
C2_AtMostOneUpdatePerParticipant ==
    \A id \in Created : \A p \in ParticipantIds :
        Cardinality(UpdatesOf(rounds[id], p)) <= 1

C4_CompletedHasModel ==
    \A id \in Created :
        rounds[id].status = "completed" =>
            /\ rounds[id].global_model # None
            /\ Len(rounds[id].model_updates) = Len(rounds[id].participants)

\* C4 witness: a round of two participants has been completed.
C4_Witness ==
    \E id \in Created :
        /\ rounds[id].status = "completed"
        /\ Len(rounds[id].participants) = 2

\* C5 (as claimed): in a completed round every participant on the roster
\* owns exactly one of the aggregated updates.
C5_OneUpdateFromEachParticipant ==
    \A id \in Created :
        rounds[id].status = "completed" => OneUpdateEach(rounds[id])

\* C6 (as claimed): a round is aggregated or completed only with every
\* update in and a roster of at least min_participants.
C6_AggregatedOnlyWhenComplete ==
    \A id \in Created :
        (assign_count[id] >= 1 \/ rounds[id].status \in {"aggregating", "completed"})
        => /\ Len(rounds[id].model_updates) = Len(rounds[id].participants)
           /\ Len(rounds[id].participants) >= rounds[id].min_participants

\* C7 (as claimed): status is waiting exactly when the roster is smaller
\* than min_participants.
C7_WaitingIffBelowMin ==
    \A id \in Created :
        rounds[id].status = "waiting"
        <=> Len(rounds[id].participants) < rounds[id].min_participants

StatusSteps ==
    {<<"waiting", "training">>, <<"training", "aggregating">>,
     <<"aggregating", "completed">>, <<"aggregating", "failed">>}

\* C8 (as claimed): the values assigned to a round's status follow
\* waiting -> training -> aggregating -> completed, or aggregating -> failed.
C8_StatusTransitions ==
    \A id \in Created :
        /\ status_trace[id][1] = "waiting"
        /\ \A i \in 1..(Len(status_trace[id]) - 1) :
               <<status_trace[id][i], status_trace[id][i + 1]>> \in StatusSteps

\* C9: once a round is completed or failed its status, participants and
\* updates never change, and every join_round and submit_model_update on it
\* is refused.
C9_TerminalRoundsRefuse ==
    [][\A id \in RoundIds :
          (rounds[id] # None /\ rounds[id].status \in {"completed", "failed"})
          => /\ rounds'[id].status = rounds[id].status
             /\ rounds'[id].participants = rounds[id].participants
             /\ rounds'[id].model_updates = rounds[id].model_updates
             /\ \A p \in ParticipantIds :
                    ~JoinSuccess(id, p) /\ ~SubmitSuccess(id, p)]_vars

\* C9 witness: every round is completed, no call is in flight, and the call
\* that returned last is a refused join: it was made on a completed round.
C9_Witness ==
    /\ Created = RoundIds
    /\ \A id \in RoundIds : rounds[id].status = "completed"
    /\ NoneSuspended
    /\ last = Returned("join", FALSE)

\* C10 (as claimed): a round that went into aggregation with one update
\* from each participant, whose shapes differ for some layer, ends failed
\* and without a global model.
C10_ShapeMismatchFails ==
    \A id \in Created :
        (/\ rounds[id].status \in {"completed", "failed"}
         /\ OneUpdateEach(rounds[id])
         /\ MeanRaises(rounds[id].model_updates))
        => /\ rounds[id].status = "failed"
           /\ rounds[id].global_model = None

\* C11 (as claimed): a submit_model_update that is not accepted changes
\* neither any round nor the membership of the two registries.
C11_RefusedSubmitChangesNothing ==
    [][\A id \in RoundIds, p \in ParticipantIds, w \in WeightInputs :
          (~SubmitSuccess(id, p) /\ SubmitModelUpdate(id, p, w))
          => /\ rounds' = rounds
             /\ active_rounds' = active_rounds
             /\ completed_rounds' = completed_rounds]_vars

\* C12 (as claimed): no round has a global model computed from zero updates.
C12_NoModelFromNoUpdates ==
    \A id \in Created :
        rounds[id].global_model # None => Len(rounds[id].model_updates) >= 1

\* the updates of a list that carry layer k
Having(us, k) == {i \in 1..Len(us) : k \in DOMAIN us[i].weights}

RECURSIVE SumOver(_, _, _, _)
SumOver(us, S, k, e) ==
    IF S = {} THEN 0
    ELSE LET i == CHOOSE x \in S : TRUE
         IN  us[i].weights[k][e] + SumOver(us, S \ {i}, k, e)

\* every layer has one shape in all the updates that carry it
Consistent(us) ==
    \A i, j \in 1..Len(us) :
        \A k \in DOMAIN us[i].weights \cap DOMAIN us[j].weights :
            Len(us[i].weights[k]) = Len(us[j].weights[k])

Terminal == {"completed", "failed"}

\* C14: active_rounds and completed_rounds share no round_id; a round is in
\* completed_rounds exactly when its status is completed or failed, and in
\* active_rounds otherwise; it enters completed_rounds once, from
\* active_rounds, at the step that makes its status terminal, and never
\* leaves it or returns to active_rounds.
C14_RegistriesDisjoint ==
    [][/\ active_rounds' \cap completed_rounds' = {}
       /\ \A id \in RoundIds :
              /\ rounds'[id] # None =>
                     /\ id \in completed_rounds' <=> rounds'[id].status \in Terminal
                     /\ id \in active_rounds' <=> rounds'[id].status \notin Terminal
              /\ id \in completed_rounds => id \in completed_rounds'
              /\ (id \in completed_rounds' /\ id \notin completed_rounds) =>
                     /\ id \in active_rounds
                     /\ rounds[id].status \notin Terminal
              /\ (id \in active_rounds' /\ id \notin active_rounds) =>
                     rounds[id] = None]_vars

\* C14 witness: a round with participants has been moved to
\* completed_rounds while another round is active.
C14_Witness ==
    /\ \E id \in completed_rounds : Len(rounds[id].participants) >= 1
    /\ active_rounds # {}

\* C15: a round with at least min_participants members, each of which has
\* submitted one update, is completed: it holds a global model, has left
\* active_rounds and is in completed_rounds, already while the submit that
\* completed it is waiting to return, and when it has returned.
C15_CompleteRoundIsCompleted ==
    \A id \in Created :
        (/\ Len(rounds[id].participants) >= rounds[id].min_participants
         /\ OneUpdateEach(rounds[id]))
        => /\ rounds[id].status = "completed"
           /\ rounds[id].global_model # None
           /\ rounds[id].global_model.weights = FederatedAverage(rounds[id].model_updates)
           /\ id \notin active_rounds
           /\ id \in completed_rounds

\* C15 witness: the submit that completed a round of two participants, one
\* update each, has returned accepted.
C15_Witness ==
    /\ NoneSuspended
    /\ last = Returned("submit", TRUE)
    /\ \E id \in Created :
           /\ Len(rounds[id].participants) = 2
           /\ OneUpdateEach(rounds[id])
           /\ rounds[id].global_model # None
           /\ rounds[id].global_model.ai_insights

NoDuplicates(list) ==
    \A i, j \in 1..Len(list) : list[i] = list[j] => i = j

\* C16: joining is idempotent. No roster ever holds an id twice; a join of an
\* id that is on the roster returns False and raises nothing; a roster
\* changes only by a join that returns True, which appends one new id.
C16_JoinIdempotent ==
    [][\A id \in RoundIds :
           rounds[id] # None =>
               /\ NoDuplicates(rounds'[id].participants)
               /\ \A p \in ParticipantIds :
                      InList(p, rounds[id].participants) => ~JoinSuccess(id, p)
               /\ rounds'[id].participants # rounds[id].participants =>
                      /\ last' = Returned("join", TRUE)
                      /\ \E p \in ParticipantIds :
                             /\ ~InList(p, rounds[id].participants)
                             /\ rounds'[id].participants =
                                    Append(rounds[id].participants, p)
               /\ last'.raised = "none"]_vars

\* C16 witness: every round id is in use and active, and the last call, a
\* join, was refused: it named a participant already on the roster.
C16_Witness ==
    /\ Created = RoundIds
    /\ active_rounds = RoundIds
    /\ last = Returned("join", FALSE)
    /\ \A id \in RoundIds : Len(rounds[id].participants) >= 1

C20_LateJoinerAwaited ==
    \A id \in Created :
        rounds[id].status = "completed" =>
            \A i \in (rounds[id].min_participants + 1)..Len(rounds[id].participants) :
                UpdatesOf(rounds[id], rounds[id].participants[i]) # {}

\* C21: a round leaves waiting for training inside the accepted join that
\* first brings its roster up to min_participants: when that join has
\* returned the status is training, and no other step takes a round from
\* waiting to training.
C21_TrainingStartsInJoin ==
    [][\A id \in RoundIds :
           rounds[id] # None =>
               /\ (/\ Len(rounds[id].participants) < rounds[id].min_participants
                   /\ Len(rounds'[id].participants) >= rounds'[id].min_participants)
                  => /\ rounds[id].status = "waiting"
                     /\ rounds'[id].status = "training"
                     /\ last' = Returned("join", TRUE)
               /\ (rounds[id].status = "waiting" /\ rounds'[id].status = "training")
                  => /\ last' = Returned("join", TRUE)
                     /\ Len(rounds[id].participants) < rounds[id].min_participants
                     /\ Len(rounds'[id].participants) = rounds'[id].min_participants]_vars

\* C21 witness: the only round needs two participants; the join of the
\* second has just returned accepted and the round is in training.
C21_Witness ==
    /\ Created = {1}
    /\ rounds[1].min_participants = 2
    /\ Len(rounds[1].participants) = 2
    /\ rounds[1].model_updates = << >>
    /\ rounds[1].status = "training"
    /\ last = Returned("join", TRUE)

\* a participant that is on no roster
FreshParticipant == NumParticipants + 1

\* C22: get_available_rounds lists exactly the rounds that are joinable right
\* now: a round is listed if and only if a join_round on it by a participant
\* not yet on its roster would be accepted.
C22_ListedIffJoinable ==
    \A id \in RoundIds :
        id \in AvailableRounds <=> JoinSuccess(id, FreshParticipant)

C25_NonPositiveBudgetStoresNothing ==
    \A id \in Created : rounds[id].model_updates = << >>

\* the sum of the absolute differences of the elements of layer k
ElementDiffs(previous, current, k) ==
    LET d == [e \in 1..Len(previous.weights[k]) |->
                 IF previous.weights[k][e] >= current.weights[k][e]
                 THEN previous.weights[k][e] - current.weights[k][e]
                 ELSE current.weights[k][e] - previous.weights[k][e]]
    IN  IF Len(d) = 1 THEN d[1] ELSE d[1] + d[2]

Only(k, array) == [l \in {k} |-> array]

C26_UpdatesWithinRoster ==
    \A id \in Created :
        Len(rounds[id].model_updates) <= Len(rounds[id].participants)

\* C26 witness: in a round of two participants one of them has submitted
\* twice; the round holds as many updates as participants and is archived.
C26_Witness ==
    \E id \in completed_rounds :
        /\ Len(rounds[id].participants) = 2
        /\ Len(rounds[id].model_updates) = 2
        /\ Cardinality(Owners(rounds[id])) = 1

\* C27: a round has a global model exactly when its status is completed,
\* which is exactly when completed_at is set, and get_global_model returns a
\* model, the round's own, exactly for the ids in completed_rounds and
\* nothing for active and unknown ids.
C27_ModelIffCompleted ==
    \A id \in RoundIds :
        /\ rounds[id] # None =>
               /\ rounds[id].global_model # None <=> rounds[id].status = "completed"
               /\ rounds[id].completed_at <=> rounds[id].status = "completed"
        /\ GlobalModel(id) # None <=> id \in completed_rounds
        /\ id \in completed_rounds => GlobalModel(id) = rounds[id].global_model
        /\ (id \in active_rounds \/ rounds[id] = None) => GlobalModel(id) = None

\* C27 witness: get_global_model has just returned a model while one round
\* is archived and another, active one holds an update and no model.
C27_Witness ==
    /\ last = Returned("model", TRUE)
    /\ completed_rounds # {}
    /\ \E id \in active_rounds :
           /\ rounds[id].model_updates # << >>
           /\ rounds[id].global_model = None

\* C28: rounds are isolated: a step of a create, join, submit or aggregation
\* changes the status, participants, updates, global model and registry
\* membership of at most one round; every other round is left as it was.
C28_RoundsIsolated ==
    [][Cardinality({id \in RoundIds :
            \/ rounds'[id] # rounds[id]
            \/ (id \in active_rounds') # (id \in active_rounds)
            \/ (id \in completed_rounds') # (id \in completed_rounds)}) <= 1]_vars

\* C28 witness: one round was aggregated and archived while the other, in
\* training with one of its two updates, is still active.
C28_Witness ==
    \E id \in completed_rounds, other \in active_rounds :
        /\ OneUpdateEach(rounds[id])
        /\ Len(rounds[id].participants) >= 1
        /\ rounds[other].status = "training"
        /\ Len(rounds[other].participants) = 2
        /\ Len(rounds[other].model_updates) = 1

\* C29: a round's roster and list of updates only grow, at the end, and its
\* round_id, the key it is registered under, its study_type and its
\* min_participants never change after creation.
C29_RoundOnlyGrows ==
    [][\A id \in RoundIds :
           rounds[id] # None =>
               /\ rounds'[id] # None
               /\ Len(rounds'[id].participants) >= Len(rounds[id].participants)
               /\ SubSeq(rounds'[id].participants, 1, Len(rounds[id].participants))
                      = rounds[id].participants
               /\ Len(rounds'[id].model_updates) >= Len(rounds[id].model_updates)
               /\ SubSeq(rounds'[id].model_updates, 1, Len(rounds[id].model_updates))
                      = rounds[id].model_updates
               /\ rounds[id].round_id = id
               /\ rounds'[id].round_id = rounds[id].round_id
               /\ rounds'[id].study_type = rounds[id].study_type
               /\ rounds'[id].min_participants = rounds[id].min_participants]_vars

\* C29 witness: participant 2 joined before participant 1, an update is
\* stored, and the round is still in training.
C29_Witness ==
    \E id \in active_rounds :
        /\ rounds[id].participants = <<2, 1>>
        /\ Len(rounds[id].model_updates) = 1
        /\ rounds[id].status = "training"

\* the orders a list of n updates can be submitted in
Orders(n) == {f \in [1..n -> 1..n] : \A i, j \in 1..n : f[i] = f[j] => i = j}

Reordered(us, f) == [i \in 1..Len(us) |-> us[f[i]]]

\* C30 (as stated): averaging any permutation of the same updates yields the
\* same layer names and the same averaged values.
C30_AverageOrderIndependent ==
    fa_result # None =>
        \A f \in Orders(Len(fa_updates)) :
            FederatedAverageFloat(Reordered(fa_updates, f)) = fa_result.weights

\* C30 (amended): averaging any permutation of the same updates yields the
\* same layer names with the same shapes; the values are the same when the
\* list holds at most two updates, and with more they agree in exact
\* arithmetic only: the float sums are rounded in list order.
C30_AverageOrderIndependentUpToRounding ==
    fa_result # None =>
        \A f \in Orders(Len(fa_updates)) :
            LET permuted == FederatedAverageFloat(Reordered(fa_updates, f))
            IN  /\ DOMAIN permuted = DOMAIN fa_result.weights
                /\ \A k \in DOMAIN permuted :
                       Len(permuted[k]) = Len(fa_result.weights[k])
                /\ Len(fa_updates) <= 2 => permuted = fa_result.weights
                /\ FederatedAverage(Reordered(fa_updates, f))
                       = FederatedAverage(fa_updates)

\* C30 witness: three updates were averaged, and another order of the same
\* three gives the same layer with another value.
C30_Witness ==
    /\ fa_result # None
    /\ Len(fa_updates) = 3
    /\ DOMAIN fa_result.weights # {}
    /\ \E f \in Orders(3) :
           LET permuted == FederatedAverageFloat(Reordered(fa_updates, f))
           IN  /\ DOMAIN permuted = DOMAIN fa_result.weights
               /\ permuted # fa_result.weights

====
